---- MODULE Spec2Model ----
(***************************************************************************)
(* fastify-multer: the Multer factory (src/src/index.ts), the per-request  *)
(* Limit Enforcer it builds (setup / wrappedFileFilter) and the ingestion  *)
(* pipeline that drives it (lib/make-beforehandler, modelled from the      *)
(* specification, sections 4.2 - 4.5 and 7).                               *)
(***************************************************************************)
EXTENDS Integers, Sequences, FiniteSets, TLC

VARIABLES options, made, called, handler, req, filesLeft, sink

vars == <<options, made, called, handler, req, filesLeft, sink>>

(***************************************************************************)
(* Bounds                                                                  *)
(***************************************************************************)
MaxCount == 2
MaxParts == 4
MaxConcParts == 3

Requests == {1, 2}
Names == {"a", "b"}
TextNames == {"title"}

(***************************************************************************)
(* JavaScript values that the enforcer computes with                       *)
(***************************************************************************)
Undef == [t |-> "undefined", v |-> 0]
Infinity == [t |-> "Infinity", v |-> 0]
Num(n) == [t |-> "number", v |-> n]

\* typeof x === 'number'
IsNumber(x) == x.t \in {"number", "Infinity"}

\* x || 0
OrZero(x) == IF x.t = "undefined" \/ (x.t = "number" /\ x.v = 0) THEN Num(0) ELSE x

\* x <= 0
LeqZero(x) == x.t = "number" /\ x.v <= 0

\* x - 1
MinusOne(x) == IF x.t = "number" THEN Num(x.v - 1) ELSE x

\* Object.create(null)
EmptyObj == [x \in {} |-> Undef]

\* obj[k]
Get(obj, k) == IF k \in DOMAIN obj THEN obj[k] ELSE Undef

\* obj[k] = v
Put(obj, k, v) == [x \in (DOMAIN obj) \cup {k} |-> IF x = k THEN v ELSE obj[x]]

(***************************************************************************)
(* multer(options) and the Multer constructor                              *)
(***************************************************************************)
Absent == [engine |-> "absent", destination |-> ""]
CustomEngine == [engine |-> "custom", destination |-> ""]
memoryStorage == [engine |-> "memory", destination |-> ""]
diskStorage(dest) == [engine |-> "disk", destination |-> dest]

Dests == {"absent", "", "uploads"}
Filters == {"absent", "custom"}

NonObjectKinds == {"undefined", "null", "string", "number", "boolean", "function"}

\* {} : every option absent
EmptyOptions ==
    [kind |-> "object", storage |-> Absent, dest |-> "absent", limits |-> "absent",
     preservePath |-> "absent", fileFilter |-> "absent"]

OptionValues ==
    [kind : NonObjectKinds \cup {"array"}, storage : {Absent}, dest : {"absent"},
     limits : {"absent"}, preservePath : {"absent"}, fileFilter : {"absent"}]
    \cup [kind : {"object"}, storage : {Absent, CustomEngine}, dest : Dests,
          limits : {"absent"}, preservePath : {"absent"}, fileFilter : Filters]

\* typeof options
Typeof(o) ==
    CASE o.kind \in {"null", "object", "array"} -> "object"
      [] OTHER -> o.kind

\* a JavaScript condition on an option: absent (undefined) and '' are falsy
Truthy(x) == x \notin {"absent", ""}

SelectStorage_DestFirst(o) ==
    IF Truthy(o.dest) THEN diskStorage(o.dest)
    ELSE IF o.storage # Absent THEN o.storage
    ELSE memoryStorage

SelectStorage(o) ==
    IF o.storage # Absent THEN o.storage
    ELSE IF Truthy(o.dest) THEN diskStorage(o.dest)
    ELSE memoryStorage

Multer(o) ==
    [storage |-> SelectStorage(o),
     limits |-> o.limits,
     preservePath |-> o.preservePath,
     fileFilter |-> IF Truthy(o.fileFilter) THEN o.fileFilter ELSE "allowAll"]

NoInstance == [storage |-> Absent, limits |-> "absent", preservePath |-> "absent", fileFilter |-> "absent"]
NotCalled == [tag |-> "notcalled", inst |-> NoInstance, error |-> ""]
Returned(i) == [tag |-> "instance", inst |-> i, error |-> ""]
Thrown(e) == [tag |-> "throw", inst |-> NoInstance, error |-> e]

multer_NoNullCheck(o) ==
    IF o.kind = "undefined" THEN Returned(Multer(EmptyOptions))
    ELSE IF Typeof(o) = "object" THEN Returned(Multer(o))
    ELSE Thrown("TypeError")

multer(o) ==
    IF o.kind = "undefined" THEN Returned(Multer(EmptyOptions))
    ELSE IF Typeof(o) = "object" /\ o.kind # "null" THEN Returned(Multer(o))
    ELSE Thrown("TypeError")

(***************************************************************************)
(* Entry points: each builds a handler (a closure over the Field           *)
(* declarations and the file strategy)                                     *)
(***************************************************************************)
MaxCounts == {Undef} \cup {Num(k) : k \in 0..MaxCount}
Field == [name : Names, maxCount : MaxCounts]
\* the arguments of fields(): up to two declarations, a repeated name included
\* (lists that differ from these only by exchanging the two names are left out)
FieldLists ==
    {<<>>} \cup {<<d>> : d \in Field}
           \cup {<<d, e>> : d \in {x \in Field : x.name = "a"}, e \in Field}

Unbuilt == [kind |-> "unbuilt", fields |-> <<>>, fileStrategy |-> ""]

_makeBeforeHandler(fs, fileStrategy) ==
    [kind |-> "limited", fields |-> fs, fileStrategy |-> fileStrategy]

single(name) == _makeBeforeHandler(<<[name |-> name, maxCount |-> Num(1)]>>, "VALUE")

array(name, maxCount) == _makeBeforeHandler(<<[name |-> name, maxCount |-> maxCount]>>, "ARRAY")

fields(fs) == _makeBeforeHandler(fs, "OBJECT")

none_Unlimited == [kind |-> "any", fields |-> <<>>, fileStrategy |-> "NONE"]

none == _makeBeforeHandler(<<>>, "NONE")

any_Limited == _makeBeforeHandler(<<>>, "ARRAY")

any == [kind |-> "any", fields |-> <<>>, fileStrategy |-> "ARRAY"]

(***************************************************************************)
(* setup: runs once per request; filesLeft is its local state              *)
(***************************************************************************)
RECURSIVE forEachField(_, _)
forEachField(fs, left) ==
    IF fs = <<>> THEN left
    ELSE forEachField(Tail(fs),
                      Put(left, Head(fs).name,
                          IF IsNumber(Head(fs).maxCount) THEN Head(fs).maxCount ELSE Infinity))

NoSetup ==
    [limits |-> "absent", preservePath |-> "absent", storage |-> Absent,
     fileFilter |-> [wrapped |-> FALSE, inner |-> "absent"], fileStrategy |-> ""]

setup(h, inst) ==
    [limits |-> inst.limits,
     preservePath |-> inst.preservePath,
     storage |-> inst.storage,
     fileFilter |-> [wrapped |-> (h.kind = "limited"), inner |-> inst.fileFilter],
     fileStrategy |-> h.fileStrategy]

\* (filesLeft[file.fieldname] || 0) <= 0
Exhausted_OffByOne(left, f) == OrZero(Get(left, f)).t = "number" /\ OrZero(Get(left, f)).v < 0

Exhausted_NoDefault(left, f) == LeqZero(Get(left, f))

Exhausted(left, f) == LeqZero(OrZero(Get(left, f)))

\* filesLeft[file.fieldname] -= 1, on the filesLeft of request r
Decrement_Shared(fl, r, f) ==
    [q \in DOMAIN fl |-> IF f \in DOMAIN fl[q] THEN Put(fl[q], f, MinusOne(fl[q][f])) ELSE fl[q]]

Decrement_Skipped(fl, r, f) == fl

Decrement(fl, r, f) == [fl EXCEPT ![r] = Put(@, f, MinusOne(Get(@, f)))]

(***************************************************************************)
(* The ingestion pipeline of one request (Ingestion Coordinator, Caller    *)
(* Filter Adapter, Storage Engine contract, Strategy Resolver)             *)
(***************************************************************************)
NoError == [code |-> "", field |-> ""]
MulterError(code, f) == [code |-> code, field |-> f]

NoResult == [strategy |-> "", list |-> <<>>, map |-> EmptyObj]

IdleReq ==
    [phase |-> "Idle", pc |-> "idle", setup |-> NoSetup, log |-> <<>>, fieldMap |-> EmptyObj,
     files |-> <<>>, todo |-> <<>>, removed |-> <<>>, pending |-> NoError, error |-> NoError,
     result |-> NoResult]

\* the outcomes the caller's filter can hand to its callback
FilterOutcomes(inner) == IF inner = "allowAll" THEN {"Accept"} ELSE {"Accept", "Reject", "Error"}

\* Parsing -> Aborted, first half: stop pulling parts, queue every committed file for removal
AbortWith_NoCleanup(rq, err) == [rq EXCEPT !.pc = "unwind", !.pending = err, !.todo = <<>>]

AbortWith(rq, err) == [rq EXCEPT !.pc = "unwind", !.pending = err, !.todo = rq.files]

\* the log entry of the part being processed
SetOutcome(rq, o) == [rq EXCEPT !.log[Len(rq.log)].outcome = o]

SelectSeq2(s, f) == SelectSeq(s, LAMBDA x : x.field = f)

DeclaredNames(h) == {h.fields[i].name : i \in DOMAIN h.fields}

\* Strategy Resolver: the files structure handed to the caller on success
Shape(fileStrategy, declared, files) ==
    [strategy |-> fileStrategy,
     list |-> IF fileStrategy \in {"VALUE", "ARRAY"} THEN files ELSE <<>>,
     map |-> IF fileStrategy = "OBJECT" THEN [f \in declared |-> SelectSeq2(files, f)] ELSE EmptyObj]

\* the outcome of the caller filter, delivered to the coordinator
AfterFilter(rq, outcome) ==
    CASE outcome = "Accept" -> [SetOutcome(rq, "storing") EXCEPT !.pc = "store"]
      [] outcome = "Reject" -> [SetOutcome(rq, "skipped") EXCEPT !.pc = "next"]
      [] OTHER -> AbortWith(SetOutcome(rq, "filterError"), MulterError("FILTER_ERROR", ""))

\* fileFilter(req, file, cb): allowAll calls back at once, a caller's filter may call back later
InvokeFilter(rq) ==
    IF rq.setup.fileFilter.inner = "allowAll" THEN AfterFilter(rq, "Accept")
    ELSE [rq EXCEPT !.pc = "filter"]

(***************************************************************************)
(* Actions                                                                 *)
(***************************************************************************)
Init ==
    /\ options = EmptyOptions
    /\ made = NotCalled
    /\ called = ""
    /\ handler = Unbuilt
    /\ req = [r \in Requests |-> IdleReq]
    /\ filesLeft = [r \in Requests |-> EmptyObj]
    /\ sink = {}

\* multer(options)
Construct(o) ==
    /\ made.tag = "notcalled"
    /\ options' = o
    /\ made' = multer(o)
    /\ UNCHANGED <<called, handler, req, filesLeft, sink>>

Build(entryPoint, h) ==
    /\ made.tag = "instance"
    /\ handler = Unbuilt
    /\ called' = entryPoint
    /\ handler' = h
    /\ UNCHANGED <<options, made, req, filesLeft, sink>>

CallSingle == \E n \in Names : Build("single", single(n))

CallArray == \E n \in Names, k \in MaxCounts : Build("array", array(n, k))

CallFields == \E fs \in FieldLists : Build("fields", fields(fs))

CallNone == Build("none", none)

CallAny == Build("any", any)

\* the handler is invoked for request r: setup() runs, Idle -> Parsing
Begin(r) ==
    /\ handler # Unbuilt
    /\ req[r].phase = "Idle"
    /\ req' = [req EXCEPT ![r] = [@ EXCEPT !.phase = "Parsing", !.pc = "next",
                                            !.setup = setup(handler, made.inst)]]
    /\ filesLeft' = [filesLeft EXCEPT ![r] =
                        IF handler.kind = "limited" THEN forEachField(handler.fields, EmptyObj)
                        ELSE EmptyObj]
    /\ UNCHANGED <<options, made, called, handler, sink>>

\* an ordinary field part goes straight into the field-map
PullField(r, n, bound) ==
    /\ req[r].phase = "Parsing" /\ req[r].pc = "next"
    /\ Len(req[r].log) < bound
    /\ LET rq == req[r]
           i == Len(rq.log) + 1
       IN req' = [req EXCEPT ![r] =
                    [rq EXCEPT !.log = Append(@, [kind |-> "field", name |-> n, outcome |-> "field"]),
                               !.fieldMap = Put(@, n, Append(IF n \in DOMAIN @ THEN @[n] ELSE <<>>, i))]]
    /\ UNCHANGED <<options, made, called, handler, filesLeft, sink>>

\* a file part: wrappedFileFilter (or, for any(), the caller's filter directly)
PullFile(r, f, bound) ==
    /\ req[r].phase = "Parsing" /\ req[r].pc = "next"
    /\ Len(req[r].log) < bound
    /\ LET rq == req[r]
           entry(o) == [kind |-> "file", name |-> f, outcome |-> o]
       IN IF rq.setup.fileFilter.wrapped /\ Exhausted(filesLeft[r], f)
          THEN /\ req' = [req EXCEPT ![r] =
                            AbortWith([rq EXCEPT !.log = Append(@, entry("limit"))],
                                      MulterError("LIMIT_UNEXPECTED_FILE", f))]
               /\ UNCHANGED filesLeft
          ELSE /\ req' = [req EXCEPT ![r] =
                            InvokeFilter([rq EXCEPT !.log = Append(@, entry("filter"))])]
               /\ filesLeft' = IF rq.setup.fileFilter.wrapped THEN Decrement(filesLeft, r, f)
                               ELSE filesLeft
    /\ UNCHANGED <<options, made, called, handler, sink>>

\* the caller's filter calls back
FilterCb(r, outcome) ==
    /\ req[r].pc = "filter"
    /\ outcome \in FilterOutcomes(req[r].setup.fileFilter.inner)
    /\ req' = [req EXCEPT ![r] = AfterFilter(@, outcome)]
    /\ UNCHANGED <<options, made, called, handler, filesLeft, sink>>

\* store(filePart) succeeds: the StoredFile joins the accumulator
StoreOk(r) ==
    /\ req[r].pc = "store"
    /\ LET rq == req[r]
           i == Len(rq.log)
       IN /\ req' = [req EXCEPT ![r] =
                       [SetOutcome(rq, "stored") EXCEPT !.pc = "next",
                            !.files = Append(@, [field |-> rq.log[i].name, part |-> i])]]
          /\ sink' = sink \cup {<<r, i>>}
    /\ UNCHANGED <<options, made, called, handler, filesLeft>>

\* store(filePart) fails with STORAGE_ERROR
StoreFail(r) ==
    /\ req[r].pc = "store"
    /\ req' = [req EXCEPT ![r] =
                 AbortWith(SetOutcome(@, "storeFailed"), MulterError("STORAGE_ERROR", ""))]
    /\ UNCHANGED <<options, made, called, handler, filesLeft, sink>>

\* failure unwind: remove(storedFile) on the next committed file; a failed remove is only logged
Remove(r, ok) ==
    /\ req[r].pc = "unwind"
    /\ req[r].todo # <<>>
    /\ LET rq == req[r]
           file == Head(rq.todo)
       IN /\ req' = [req EXCEPT ![r] =
                       [rq EXCEPT !.todo = Tail(@),
                                  !.removed = Append(@, [part |-> file.part, ok |-> ok])]]
          /\ sink' = IF ok THEN sink \ {<<r, file.part>>} ELSE sink
    /\ UNCHANGED <<options, made, called, handler, filesLeft>>

\* the unwind is over: the original error is surfaced, Parsing -> Aborted
Surface(r) ==
    /\ req[r].pc = "unwind"
    /\ req[r].todo = <<>>
    /\ req' = [req EXCEPT ![r] =
                 [@ EXCEPT !.phase = "Aborted", !.pc = "done", !.error = req[r].pending]]
    /\ UNCHANGED <<options, made, called, handler, filesLeft, sink>>

\* the Part Source is exhausted: Parsing -> Succeeded
Finish(r) ==
    /\ req[r].phase = "Parsing" /\ req[r].pc = "next"
    /\ req' = [req EXCEPT ![r] =
                 [@ EXCEPT !.phase = "Succeeded", !.pc = "done",
                           !.result = Shape(req[r].setup.fileStrategy, DeclaredNames(handler),
                                            req[r].files)]]
    /\ UNCHANGED <<options, made, called, handler, filesLeft, sink>>

(***************************************************************************)
(* Specifications                                                          *)
(***************************************************************************)
\* construction and handler building, for every options value
NextConfig ==
    \/ \E o \in OptionValues : Construct(o)
    \/ CallSingle
    \/ CallArray
    \/ CallFields
    \/ CallNone
    \/ CallAny
    \/ \E r \in Requests : Begin(r)

SpecConfig == Init /\ [][NextConfig]_vars

\* one request through a handler of an instance made with or without a caller filter
PipelineOptions == {o \in OptionValues : o.kind = "object" /\ o.storage = Absent /\ o.dest = "absent"}

InitMade ==
    /\ \E o \in PipelineOptions : options = o /\ made = multer(o)
    /\ called = ""
    /\ handler = Unbuilt
    /\ req = [r \in Requests |-> IdleReq]
    /\ filesLeft = [r \in Requests |-> EmptyObj]
    /\ sink = {}

Next ==
    \/ CallSingle
    \/ CallArray
    \/ CallFields
    \/ CallNone
    \/ CallAny
    \/ Begin(1)
    \/ \E n \in TextNames : PullField(1, n, MaxParts)
    \/ \E f \in Names : PullFile(1, f, MaxParts)
    \/ \E o \in {"Accept", "Reject", "Error"} : FilterCb(1, o)
    \/ StoreOk(1)
    \/ StoreFail(1)
    \/ \E ok \in BOOLEAN : Remove(1, ok)
    \/ Surface(1)
    \/ Finish(1)

Spec == InitMade /\ [][Next]_vars

\* two concurrent requests through the same handler, MaxConcParts parts between them
Other(r) == CHOOSE q \in Requests : q # r

Room(r) == MaxConcParts - Len(req[Other(r)].log)

NextConc ==
    \/ CallSingle
    \/ CallArray
    \/ CallFields
    \/ CallNone
    \/ CallAny
    \/ \E r \in Requests : Begin(r)
    \/ \E r \in Requests, n \in TextNames : PullField(r, n, Room(r))
    \/ \E r \in Requests, f \in Names : PullFile(r, f, Room(r))
    \/ \E r \in Requests, o \in {"Accept", "Reject", "Error"} : FilterCb(r, o)
    \/ \E r \in Requests : StoreOk(r)
    \/ \E r \in Requests : StoreFail(r)
    \/ \E r \in Requests, ok \in BOOLEAN : Remove(r, ok)
    \/ \E r \in Requests : Surface(r)
    \/ \E r \in Requests : Finish(r)

SpecConc == InitMade /\ [][NextConc]_vars

(***************************************************************************)
(* What a request's log says, for stating the properties                   *)
(***************************************************************************)
Limited == called \in {"single", "array", "fields"}

\* the declaration that counts for field name f: the last one that names it
Declared(f) == \E i \in DOMAIN handler.fields : handler.fields[i].name = f

LastDeclaration(f) ==
    handler.fields[CHOOSE i \in DOMAIN handler.fields :
                       /\ handler.fields[i].name = f
                       /\ \A j \in DOMAIN handler.fields : j > i => handler.fields[j].name # f]

Bounded(f) == Declared(f) /\ LastDeclaration(f).maxCount.t = "number"

MaxCountOf(f) == LastDeclaration(f).maxCount.v

\* positions of the file parts that arrived for f
FileParts(r, f) ==
    {i \in DOMAIN req[r].log : req[r].log[i].kind = "file" /\ req[r].log[i].name = f}

\* file part i is the n-th to arrive for its field
Ordinal(r, i) == Cardinality({j \in FileParts(r, req[r].log[i].name) : j <= i})

Admitted(r, f) == {i \in FileParts(r, f) : req[r].log[i].outcome # "limit"}

Stored(r, f) == {i \in DOMAIN req[r].files : req[r].files[i].field = f}

LimitErrorFor(r, f) ==
    /\ req[r].pending = MulterError("LIMIT_UNEXPECTED_FILE", f)
    /\ req[r].pc \in {"unwind", "done"}
    /\ req[r].phase # "Succeeded"
    /\ req[r].phase = "Aborted" => req[r].error = MulterError("LIMIT_UNEXPECTED_FILE", f)

(***************************************************************************)
(* C1: in a request of a single(), array() or fields() handler, the i-th   *)
(* file part of a declared field with budget k is admitted exactly when    *)
(* i <= k (always, when maxCount is absent); a part beyond k is rejected   *)
(* with LIMIT_UNEXPECTED_FILE for that field, reaches neither the filter   *)
(* nor the engine, and at most k files are admitted or stored for it.      *)
(***************************************************************************)
C1_BudgetEnforced ==
    Limited =>
        \A f \in Names : Declared(f) =>
            /\ \A i \in FileParts(1, f) :
                  /\ (req[1].log[i].outcome # "limit") <=> (~Bounded(f) \/ Ordinal(1, i) <= MaxCountOf(f))
                  /\ req[1].log[i].outcome = "limit" =>
                        /\ i = Len(req[1].log)
                        /\ LimitErrorFor(1, f)
                        /\ \A j \in DOMAIN req[1].files : req[1].files[j].part # i
                        /\ <<1, i>> \notin sink
            /\ Bounded(f) => /\ Cardinality(Admitted(1, f)) <= MaxCountOf(f)
                             /\ Cardinality(Stored(1, f)) <= MaxCountOf(f)

C1_Witness ==
    /\ Limited
    /\ \E f \in Names :
          /\ Bounded(f) /\ MaxCountOf(f) = 2
          /\ Cardinality(FileParts(1, f)) = 3
          /\ Cardinality(Stored(1, f)) = 2
          /\ req[1].phase = "Aborted"
          /\ req[1].error = MulterError("LIMIT_UNEXPECTED_FILE", f)

(***************************************************************************)
(* C2: in a request of a single(), array() or fields() handler, a file     *)
(* part of an undeclared field name is rejected with LIMIT_UNEXPECTED_FILE *)
(* for that name whatever preceded it, without a call of the caller filter *)
(* and without a change to any field's remaining budget.                   *)
(***************************************************************************)
C2_UndeclaredRejected ==
    [][\A f \in Names :
          (/\ Limited /\ ~Declared(f)
           /\ Len(req'[1].log) = Len(req[1].log) + 1
           /\ req'[1].log[Len(req'[1].log)].kind = "file"
           /\ req'[1].log[Len(req'[1].log)].name = f)
          => /\ req'[1].log[Len(req'[1].log)].outcome = "limit"
             /\ req'[1].pending = MulterError("LIMIT_UNEXPECTED_FILE", f)
             /\ req'[1].pc = "unwind"
             /\ req'[1].files = req[1].files
             /\ filesLeft' = filesLeft]_vars

C2_Witness ==
    /\ Limited
    /\ \E f \in Names :
          /\ ~Declared(f)
          /\ FileParts(1, f) # {}
          /\ \E g \in Names : Declared(g) /\ Stored(1, g) # {}
          /\ \E i \in DOMAIN req[1].log : req[1].log[i].kind = "field"
          /\ req[1].phase = "Aborted"
          /\ req[1].error = MulterError("LIMIT_UNEXPECTED_FILE", f)

(***************************************************************************)
(* C10: a field's remaining budget is decremented at admission, before     *)
(* the caller filter answers, and is never restored: the remaining budget  *)
(* is always the declared maxCount less the parts admitted so far, the     *)
(* filter is called at most maxCount times per field, and once maxCount    *)
(* parts were admitted every further part is rejected with                 *)
(* LIMIT_UNEXPECTED_FILE, even when the filter rejected the admitted ones. *)
(***************************************************************************)
C10_DecrementNotRestored ==
    (Limited /\ req[1].phase # "Idle") =>
        \A f \in Names : Bounded(f) =>
            /\ filesLeft[1][f] = Num(MaxCountOf(f) - Cardinality(Admitted(1, f)))
            /\ Cardinality(Admitted(1, f)) <= MaxCountOf(f)
            /\ \A i \in FileParts(1, f) :
                  Cardinality({j \in Admitted(1, f) : j < i}) >= MaxCountOf(f)
                  => req[1].log[i].outcome = "limit" /\ LimitErrorFor(1, f)

C10_Witness ==
    /\ Limited
    /\ \E f \in Names :
          /\ Bounded(f) /\ MaxCountOf(f) = 2
          /\ Cardinality(Admitted(1, f)) = 2
          /\ \E i \in Admitted(1, f) : req[1].log[i].outcome = "skipped"
          /\ Cardinality(Stored(1, f)) < 2
          /\ \E i \in FileParts(1, f) : req[1].log[i].outcome = "limit"
          /\ req[1].phase = "Aborted"

(***************************************************************************)
(* C3: in a request of a none() handler every file part, of any field      *)
(* name, yields LIMIT_UNEXPECTED_FILE; no file reaches the filter or the   *)
(* engine; the field-map holds every ordinary field that preceded it.      *)
(***************************************************************************)
FieldParts(r, n) ==
    {i \in DOMAIN req[r].log : req[r].log[i].kind = "field" /\ req[r].log[i].name = n}

\* the positions in s, in increasing order
RECURSIVE Ascending(_)
Ascending(s) ==
    IF s = {} THEN <<>>
    ELSE LET m == CHOOSE x \in s : \A y \in s : x <= y
         IN <<m>> \o Ascending(s \ {m})

C3_NoneRejectsFiles ==
    (called = "none" /\ req[1].phase # "Idle") =>
        /\ req[1].setup.fileStrategy = "NONE"
        /\ \A f \in Names : \A i \in FileParts(1, f) :
              /\ req[1].log[i].outcome = "limit"
              /\ i = Len(req[1].log)
              /\ LimitErrorFor(1, f)
        /\ req[1].files = <<>>
        /\ \A i \in DOMAIN req[1].log : <<1, i>> \notin sink
        /\ \A n \in TextNames :
              IF FieldParts(1, n) = {} THEN n \notin DOMAIN req[1].fieldMap
              ELSE n \in DOMAIN req[1].fieldMap /\ req[1].fieldMap[n] = Ascending(FieldParts(1, n))

C3_Witness ==
    /\ called = "none"
    /\ req[1].phase = "Aborted"
    /\ \E f \in Names : req[1].error = MulterError("LIMIT_UNEXPECTED_FILE", f)
    /\ \E n \in TextNames : n \in DOMAIN req[1].fieldMap /\ Len(req[1].fieldMap[n]) >= 2

(***************************************************************************)
(* C4: in a request of an any() handler no file part is rejected with      *)
(* LIMIT_UNEXPECTED_FILE: every file part of every field name goes to the  *)
(* caller filter, there is no filesLeft, and the strategy is ARRAY.        *)
(***************************************************************************)
C4_AnyUnlimited ==
    (called = "any" /\ req[1].phase # "Idle") =>
        /\ req[1].setup.fileStrategy = "ARRAY"
        /\ ~req[1].setup.fileFilter.wrapped
        /\ filesLeft[1] = EmptyObj
        /\ \A i \in DOMAIN req[1].log : req[1].log[i].outcome # "limit"
        /\ req[1].pending.code # "LIMIT_UNEXPECTED_FILE"
        /\ req[1].error.code # "LIMIT_UNEXPECTED_FILE"
        /\ req[1].phase = "Succeeded" =>
              req[1].result = [strategy |-> "ARRAY", list |-> req[1].files, map |-> EmptyObj]

C4_Witness ==
    /\ called = "any"
    /\ req[1].phase = "Succeeded"
    /\ \E f \in Names : Cardinality(Stored(1, f)) = MaxParts
    /\ Len(req[1].result.list) = MaxParts

(***************************************************************************)
(* C5 as stated: with fields {a: maxCount 2, b: maxCount 1} and the file   *)
(* parts a, a, a, ..., the rejection of the third a does not end the       *)
(* request: the two a files stay committed and the next part (b) can       *)
(* still be processed.                                                     *)
(***************************************************************************)
DeclAB == <<[name |-> "a", maxCount |-> Num(2)], [name |-> "b", maxCount |-> Num(1)]>>

\* the request got a, a, a as its first three parts and the first two were stored
ThreeAs ==
    /\ called = "fields" /\ handler.fields = DeclAB
    /\ Len(req[1].log) >= 3
    /\ \A i \in 1..3 : req[1].log[i].kind = "file" /\ req[1].log[i].name = "a"
    /\ req[1].log[1].outcome = "stored" /\ req[1].log[2].outcome = "stored"

StoreFailed(r) ==
    /\ req[r].log # <<>>
    /\ req[r].log[Len(req[r].log)].outcome = "storeFailed"

Committed(r) == {i \in DOMAIN req[r].log : req[r].log[i].outcome = "stored"}

RemoveCalls(r, i) == {j \in DOMAIN req[r].removed : req[r].removed[j].part = i}

C6_UnwindThenSurface ==
    (StoreFailed(1) /\ req[1].phase = "Aborted") =>
        /\ req[1].error = MulterError("STORAGE_ERROR", "")
        /\ req[1].error.code # "CLEANUP_ERROR"
        /\ \A i \in Committed(1) :
              /\ Cardinality(RemoveCalls(1, i)) = 1
              /\ (\A j \in RemoveCalls(1, i) : req[1].removed[j].ok) => <<1, i>> \notin sink
        /\ Len(req[1].removed) = Cardinality(Committed(1))
        /\ req[1].result = NoResult

C6_Witness ==
    /\ StoreFailed(1) /\ req[1].phase = "Aborted"
    /\ Cardinality(Committed(1)) = 2
    /\ \E j \in DOMAIN req[1].removed : ~req[1].removed[j].ok
    /\ \E j \in DOMAIN req[1].removed : req[1].removed[j].ok
    /\ req[1].error.code = "STORAGE_ERROR"

(***************************************************************************)
(* C7 as stated: the engine is the explicit storage option whenever one is *)
(* present; otherwise a disk engine for the destination whenever a         *)
(* destination is given; otherwise the in-memory engine; and every handler *)
(* of the instance hands that engine to its requests.                      *)
(***************************************************************************)
HandlersUseInstanceEngine ==
    \A r \in Requests : req[r].phase # "Idle" => req[r].setup.storage = made.inst.storage

C7_Original ==
    made.tag = "instance" =>
        /\ options.storage # Absent => made.inst.storage = options.storage
        /\ (options.storage = Absent /\ options.dest # "absent")
              => made.inst.storage = [engine |-> "disk", destination |-> options.dest]
        /\ (options.storage = Absent /\ options.dest = "absent")
              => made.inst.storage = [engine |-> "memory", destination |-> ""]
        /\ HandlersUseInstanceEngine

(***************************************************************************)
(* C7 amended: the engine is the explicit storage option whenever one is   *)
(* present, also when a destination is given too; otherwise a disk engine  *)
(* for the destination when a non-empty destination is given; otherwise    *)
(* (no destination, or the empty string) the in-memory engine; and every   *)
(* handler of the instance hands that engine to its requests.              *)
(***************************************************************************)
C7_StoragePrecedence ==
    made.tag = "instance" =>
        /\ options.storage # Absent => made.inst.storage = options.storage
        /\ (options.storage = Absent /\ options.dest \notin {"absent", ""})
              => made.inst.storage = [engine |-> "disk", destination |-> options.dest]
        /\ (options.storage = Absent /\ options.dest \in {"absent", ""})
              => made.inst.storage = [engine |-> "memory", destination |-> ""]
        /\ HandlersUseInstanceEngine

C7_Witness ==
    /\ made.tag = "instance"
    /\ options.storage = CustomEngine /\ options.dest = "uploads"
    /\ called = "any"
    /\ req[1].phase = "Parsing" /\ req[1].setup.storage = CustomEngine
    /\ req[2].phase = "Parsing" /\ req[2].setup.storage = CustomEngine

(***************************************************************************)
(* C8: multer(options) with options present but not an object (a string,   *)
(* number, boolean, function) or null throws at construction and makes no  *)
(* instance; absent options are treated as empty options; any object       *)
(* makes an instance.                                                      *)
(***************************************************************************)
C8_OptionsValidated ==
    made.tag # "notcalled" =>
        /\ options.kind \in {"null", "string", "number", "boolean", "function"}
              => /\ made.tag = "throw" /\ made.error = "TypeError"
                 /\ made.inst = NoInstance
                 /\ handler = Unbuilt
        /\ options.kind = "undefined"
              => /\ made.tag = "instance"
                 /\ made.inst = [storage |-> [engine |-> "memory", destination |-> ""],
                                 limits |-> "absent", preservePath |-> "absent",
                                 fileFilter |-> "allowAll"]
        /\ options.kind \in {"object", "array"} => made.tag = "instance" /\ made.error = ""

C8_Witness ==
    /\ made.tag = "throw"
    /\ options.kind = "null"
    /\ handler = Unbuilt

(***************************************************************************)
(* C9: filesLeft is request-scoped: each request of a handler starts with  *)
(* every declared field at its declared maxCount (or unbounded), and with  *)
(* two requests interleaved each request's remaining budgets and admission *)
(* outcomes depend on its own file parts only.                             *)
(***************************************************************************)
C9_RequestScoped ==
    \A r \in Requests :
        IF req[r].phase = "Idle" \/ ~Limited THEN filesLeft[r] = EmptyObj
        ELSE /\ DOMAIN filesLeft[r] = {f \in Names : Declared(f)}
             /\ \A f \in DOMAIN filesLeft[r] :
                   /\ filesLeft[r][f] = IF Bounded(f)
                                        THEN Num(MaxCountOf(f) - Cardinality(Admitted(r, f)))
                                        ELSE Infinity
                   /\ \A i \in FileParts(r, f) :
                         (req[r].log[i].outcome = "limit")
                            <=> (Bounded(f) /\ Ordinal(r, i) > MaxCountOf(f))

C9_Witness ==
    /\ called = "single"
    /\ \E f \in Names :
          /\ Cardinality(FileParts(1, f)) = 2 /\ Cardinality(Admitted(1, f)) = 1
          /\ req[1].phase = "Aborted"
          /\ Cardinality(Stored(2, f)) = 1
          /\ req[2].phase = "Succeeded"
          /\ <<2, 1>> \in sink

====
